---- MODULE Spec2Model ----
(***************************************************************************)
(* A model of bot.py: the Discord relay bot that maps a user to an OpenAI  *)
(* Assistants thread (user_threads, persisted as JSON), runs the assistant *)
(* on every inbound message and polls the run to its end.                  *)
(*                                                                         *)
(* Every on_message invocation is a handler h.  discord.py runs handlers   *)
(* as tasks of one asyncio loop: a handler runs alone from one await to    *)
(* the next (the OpenAI client used here is the blocking one), so the      *)
(* variable running names the handler that holds the loop and the other    *)
(* handlers move only when it is 0.     The awaits of on_message are       *)
(* channel.typing(), asyncio.sleep() and channel.send().                   *)
(*                                                                         *)
(* Time is counted in half seconds, so that asyncio.sleep(1.5) is 3.       *)
(* Strings that are measured or cut are run-length encoded: a Text is a    *)
(* sequence of <<character, count>> with count > 0 and adjacent runs of    *)
(* different characters.                                                   *)
(***************************************************************************)
EXTENDS Integers, Sequences, FiniteSets, TLC

None == "None"

(* ------------------------------ bounds -------------------------------- *)

\* Inbound messages (on_message invocations) of one run of the process.
NumHandlers == 2
\* Status fetches of one run that the remote may answer "not finished yet"
\* before it either finishes the run or the deadline passes (Spec only).
MaxPolls == 2
\* Assistant messages the remote appends for one run.
MaxAssistantMsgs == 1
\* Length of the long assistant text.
LongLen == 5000

(* -------------------------- program constants -------------------------- *)

timeout_seconds == 120
\* asyncio.sleep(1.5), in half seconds
sleep_halfseconds == 3
\* len(full_response) <= 2000
single_message_limit == 2000
\* full_response[i:i+1990]
chunk_size == 1990

(* ------------------------------- Text ---------------------------------- *)

Chr(c) == << <<c, 1>> >>
Rep(c, n) == IF n > 0 THEN << <<c, n>> >> ELSE << >>

RECURSIVE TLen(_)
TLen(t) == IF t = << >> THEN 0 ELSE Head(t)[2] + TLen(Tail(t))

\* s + t
TCat(s, t) ==
  IF s = << >> THEN t
  ELSE IF t = << >> THEN s
  ELSE IF s[Len(s)][1] = t[1][1]
       THEN SubSeq(s, 1, Len(s) - 1)
              \o << <<t[1][1], s[Len(s)][2] + t[1][2]>> >>
              \o Tail(t)
       ELSE s \o t

\* t[:k]
RECURSIVE TTake(_, _)
TTake(t, k) ==
  IF k <= 0 \/ t = << >> THEN << >>
  ELSE IF Head(t)[2] <= k
       THEN << Head(t) >> \o TTake(Tail(t), k - Head(t)[2])
       ELSE << <<Head(t)[1], k>> >>

\* t[k:]
RECURSIVE TDrop(_, _)
TDrop(t, k) ==
  IF k <= 0 \/ t = << >> THEN t
  ELSE IF Head(t)[2] <= k
       THEN TDrop(Tail(t), k - Head(t)[2])
       ELSE << <<Head(t)[1], Head(t)[2] - k>> >> \o Tail(t)

\* t[i:j] for 0 <= i <= j
TSlice(t, i, j) == TTake(TDrop(t, i), j - i)

\* sep.join(parts)
RECURSIVE TJoin(_, _)
TJoin(sep, parts) ==
  IF parts = << >> THEN << >>
  ELSE IF Len(parts) = 1 THEN parts[1]
  ELSE TCat(TCat(parts[1], sep), TJoin(sep, Tail(parts)))

\* reversed(s)
Reversed(s) == [i \in 1..Len(s) |-> s[Len(s) + 1 - i]]

\* str(n) for n >= 0
RECURSIVE IntToStr(_)
IntToStr(n) ==
  LET d == <<"0", "1", "2", "3", "4", "5", "6", "7", "8", "9">>
  IN IF n < 10 THEN Chr(d[n + 1])
     ELSE TCat(IntToStr(n \div 10), Chr(d[(n % 10) + 1]))

Digits == {"0", "1", "2", "3", "4", "5", "6", "7", "8", "9"}
DigitVal(c) ==
  CASE c = "0" -> 0 [] c = "1" -> 1 [] c = "2" -> 2 [] c = "3" -> 3
    [] c = "4" -> 4 [] c = "5" -> 5 [] c = "6" -> 6 [] c = "7" -> 7
    [] c = "8" -> 8 [] c = "9" -> 9

\* int(t) raises ValueError unless t is a numeral
IsIntStr(t) == t # << >> /\ \A i \in 1..Len(t) : t[i][1] \in Digits

RECURSIVE ParseDigits(_, _)
ParseDigits(t, acc) ==
  IF t = << >> THEN acc
  ELSE ParseDigits(TCat(Rep(Head(t)[1], Head(t)[2] - 1), Tail(t)),
                   10 * acc + DigitVal(Head(t)[1]))

\* A conversion that keeps the last digit alone.
StrToIntLastDigit(t) == DigitVal(t[Len(t)][1])
\* int(t) for a numeral t
StrToInt(t) == ParseDigits(t, 0)

(* --------------------------- the Session Store ------------------------- *)

\* user_threads = {}
EmptyDict == [u \in {} |-> None]
\* A get that never finds the key.
DictGetMisses(d, k) == None
\* user_threads.get(k)
DictGet(d, k) == IF k \in DOMAIN d THEN d[k] ELSE None
\* An assignment that is lost.
DictPutLost(d, k, v) == d
\* user_threads[k] = v
DictPut(d, k, v) == [x \in DOMAIN d \cup {k} |-> IF x = k THEN v ELSE d[x]]
\* A del that leaves the key.
DictDelKeeps(d, k) == d
\* del user_threads[k]
DictDel(d, k) == [x \in DOMAIN d \ {k} |-> d[x]]

\* THREAD_DATA_FILE: absent, not JSON, or a JSON object given as the set of
\* its <<key, value>> members, the keys Texts.
Missing == [kind |-> "missing", members |-> {}]
Malformed == [kind |-> "malformed", members |-> {}]
\* JSON, but not an object: data_from_file.items() raises AttributeError.
NotAnObject == [kind |-> "array", members |-> {}]
Object(members) == [kind |-> "object", members |-> members]

\* {str(k): v for k, v in user_threads.items()}
data_to_save(d) == Object({<<IntToStr(k), d[k]>> : k \in DOMAIN d})

\* How open(..., 'w') and json.dump end: the whole object written, open()
\* raising (the file is left as it was), or the dump raising after open()
\* truncated the file.
WriteOutcomes == {"written", "open_raises", "dump_raises"}

\* A save that adds the entries of d to the object the file holds instead of
\* writing the file anew.
save_threads_merges(d, f, w) ==
  CASE w = "written" ->
         Object((IF f.kind = "object" THEN f.members ELSE {})
                  \cup data_to_save(d).members)
    [] w = "open_raises" -> f
    [] w = "dump_raises" -> Malformed

\* The file after save_threads() of dictionary d when the write ends as w.
save_threads(d, f, w) ==
  CASE w = "written" -> data_to_save(d)
    [] w = "open_raises" -> f
    [] w = "dump_raises" -> Malformed

\* A load that skips the members it cannot convert and keeps the others.
load_threads_partial(f) ==
  LET good == {m \in f.members : IsIntStr(m[1])}
  IN [u \in {StrToInt(m[1]) : m \in good} |->
        (CHOOSE m \in good : StrToInt(m[1]) = u)[2]]

\* user_threads after load_threads() of file f.
load_threads(f) ==
  IF f.kind = "missing" THEN EmptyDict
  ELSE IF f.kind = "malformed" THEN EmptyDict
  ELSE IF f.kind # "object" THEN EmptyDict
  ELSE IF \E m \in f.members : ~IsIntStr(m[1]) THEN EmptyDict
  ELSE [u \in {StrToInt(m[1]) : m \in f.members} |->
          (CHOOSE m \in f.members : StrToInt(m[1]) = u)[2]]

(* ------------------------- the remote assistant ------------------------ *)

\* Identifiers the remote service issues: the n-th thread, handler h's run.
ThreadId(n) == "thread_" \o ToString(n)
RunId(h) == "run_" \o ToString(h)

RunStatus == {"queued", "in_progress", "cancelling", "completed",
              "requires_action", "failed", "cancelled", "expired"}
\* run.status in ['queued', 'in_progress', 'cancelling']
InFlight == {"queued", "in_progress", "cancelling"}

\* run.last_error: set by the remote on a failed run, not always.
LastErrors(status) ==
  IF status = "failed" THEN {None, "server_error"} ELSE {None}

NoRun == [id |-> None, status |-> None, last_error |-> None]

\* What a raising OpenAI call raises, by the except clause that takes it.
Raises == {"RateLimitError", "APIError", "Exception"}

\* How threads.delete() ends: deleted, not deleted, NotFoundError, another
\* exception.
DeleteOutcomes == {"deleted", "not_deleted", "NotFoundError", "raised"}

\* A content block of a message.
TextBlock(t) == [type |-> "text", text |-> t]
ImageBlock == [type |-> "image_file", text |-> << >>]

\* The content of an assistant message: two text segments, no text at all, or
\* one text longer than a Discord message.
AssistantContents ==
  { << TextBlock(Chr("a")), TextBlock(Chr("b")) >>,
    << ImageBlock >>,
    << TextBlock(Rep("c", LongLen)) >> }

\* A thread holds, oldest first, who wrote each message and for which run.
\* What an assistant message says is read by the run that asked for it
\* alone, and only when it lists the thread: it is drawn then.
Posted(role, rid) == [role |-> role, run_id |-> rid]
Message(role, rid, content) == [role |-> role, run_id |-> rid, content |-> content]

\* How many of the first i messages of thread t are assistant messages of run rid.
RECURSIVE CountOwn(_, _, _)
CountOwn(t, i, rid) ==
  IF i = 0 THEN 0
  ELSE CountOwn(t, i - 1, rid)
       + (IF t[i].role = "assistant" /\ t[i].run_id = rid THEN 1 ELSE 0)

\* messages.list(thread_id, order="asc").data as the run rid gets it, its own
\* assistant messages saying cs[1], cs[2], ...
Listed(t, rid, cs) ==
  [i \in 1..Len(t) |->
     IF t[i].role = "user"
     THEN Message("user", t[i].run_id, << TextBlock(Chr("u")) >>)
     ELSE IF t[i].run_id = rid
     THEN Message("assistant", rid, cs[CountOwn(t, i, rid)])
     ELSE Message("assistant", t[i].run_id, << TextBlock(Chr("o")) >>)]

(* ----------------------------- extraction ------------------------------ *)

\* The values of the text blocks of one message, in the order of msg.content.
RECURSIVE TextsOf(_)
TextsOf(content) ==
  IF content = << >> THEN << >>
  ELSE (IF Head(content).type = "text" THEN << Head(content).text >> ELSE << >>)
       \o TextsOf(Tail(content))

\* assistant_responses after the loop over reversed(data) has looked at
\* data[i], data[i-1], ...
RECURSIVE Scan(_, _, _)
Scan(data, i, rid) ==
  IF i = 0 THEN << >>
  ELSE LET msg == data[i]
           got == IF msg.run_id = rid /\ msg.role = "assistant"
                  THEN TextsOf(msg.content) ELSE << >>
       IN IF msg.role = "user" /\ msg.run_id # rid
          THEN got
          ELSE got \o Scan(data, i - 1, rid)

assistant_responses(data, rid) == Scan(data, Len(data), rid)

\* "\n".join(reversed(assistant_responses))
JoinResponses(responses) == TJoin(Chr("\n"), Reversed(responses))

\* Parts cut every 2000 characters: ten characters lost between two parts.
PartsSkipping(t) ==
  [k \in 1..((TLen(t) + chunk_size - 1) \div chunk_size) |->
     TSlice(t, (k - 1) * single_message_limit,
            (k - 1) * single_message_limit + chunk_size)]

\* [full_response[i:i+1990] for i in range(0, len(full_response), 1990)]
Parts(t) ==
  [k \in 1..((TLen(t) + chunk_size - 1) \div chunk_size) |->
     TSlice(t, (k - 1) * chunk_size, k * chunk_size)]

(* ------------------------------- inbound ------------------------------- *)

Users == {7, 12}

\* message.content as tokens: "M" is <@id> and "MB" is <@!id> of the bot,
\* "SP" white space, "W" anything else.
RECURSIVE LStrip(_)
LStrip(c) == IF c # << >> /\ Head(c) = "SP" THEN LStrip(Tail(c)) ELSE c
Strip(c) == Reversed(LStrip(Reversed(LStrip(c))))
IsNotMention(tok) == tok \notin {"M", "MB"}
\* actual_content: both mention patterns replaced by '', then strip()
actual_content(c) == Strip(SelectSeq(c, IsNotMention))

Event(author, self, guild, mentioned, everyone, content) ==
  [author |-> author, self |-> self, guild |-> guild, mentioned |-> mentioned,
   everyone |-> everyone, content |-> content]
NoEvent == Event(0, FALSE, FALSE, FALSE, FALSE, << >>)

\* The messages that arrive: a DM, a mention with text, a bare mention, a
\* server message that does not mention the bot, an @everyone, and the bot's
\* own message.
DirectMessage == Event(7, FALSE, FALSE, FALSE, FALSE, <<"W">>)
InboundEvents ==
  { DirectMessage,
    Event(12, FALSE, TRUE, TRUE, FALSE, <<"M", "SP", "W">>),
    Event(12, FALSE, TRUE, TRUE, FALSE, <<"MB", "SP">>),
    Event(12, FALSE, TRUE, FALSE, FALSE, <<"W">>),
    Event(12, FALSE, TRUE, FALSE, TRUE, <<"W">>),
    Event(7, TRUE, FALSE, FALSE, FALSE, <<"W">>) }

\* A direct message without text (an attachment alone).
EmptyDirectMessage == Event(7, FALSE, FALSE, FALSE, FALSE, << >>)

\* discord_client.user.mentioned_in(message)
mentioned_in(e) == e.everyone \/ e.mentioned

\* message.author.mention followed by a space: "<@" + str(id) + "> "
response_prefix(u) ==
  TCat(TCat(TCat(Chr("<"), Chr("@")), IntToStr(u)), TCat(Chr(">"), Chr(" ")))

\* What channel.send() is given: the kind of message, whether it starts with
\* the author's mention, the error code or status it quotes, and for a reply
\* its text.
Sent(kind, mention, detail, text) ==
  [kind |-> kind, mention |-> mention, detail |-> detail, text |-> text]

\* One call out of the process: the operation, its argument, how it ended.
Call(op, arg, res) == [op |-> op, arg |-> arg, res |-> res]
Send(m) == Call("send", m, "sent")

(* ----------------------------- environment ----------------------------- *)

\* The file load_threads() finds at startup: none, or the one an earlier run
\* of the process left.
InitStore == [u \in {7} |-> ThreadId(0)]
InitFiles == {Missing, data_to_save(InitStore)}

\* The files an earlier run or somebody else may have left: besides those,
\* a file of two users one of whom never writes here, a file that is not
\* JSON, one that is not an object, and an object one key of which is not a
\* numeral.
PriorStore == [u \in {12, 120} |-> IF u = 12 THEN ThreadId(0) ELSE "thread_a"]
ForeignKey == Object({<<IntToStr(7), ThreadId(0)>>, <<Chr("x"), "thread_a">>})
AllFiles ==
  InitFiles \cup {data_to_save(PriorStore), Malformed, NotAnObject, ForeignKey}

\* A text of n characters, the first half c and the rest d.
VariedText(n) == TCat(Rep("c", n \div 2), Rep("d", n - (n \div 2)))

\* The lengths of reply around which the sending changes.
ReplyLengths ==
  {single_message_limit, single_message_limit + 1, 2 * chunk_size,
   2 * chunk_size + 1, LongLen}

\* Assistant messages of one text of each of these lengths.
LongContents == {<< TextBlock(VariedText(n)) >> : n \in ReplyLengths}

\* What the blocking calls and the other handlers add to the 1.5 s of a
\* sleep before time.time() is read again: nothing, or more than the timeout.
Delays == {0, 2 * timeout_seconds}

\* What the world outside on_message may do.  cap: the remote leaves a run
\* unfinished only while less than cap half seconds have been counted.
Env(events, files, writes, raises, statuses, delays, deletes, contents, cap) ==
  [events |-> events, files |-> files, writes |-> writes, raises |-> raises,
   statuses |-> statuses, delays |-> delays, deletes |-> deletes,
   contents |-> contents, cap |-> cap]

FullEnv ==
  Env(InboundEvents, InitFiles, WriteOutcomes, Raises, RunStatus, Delays,
      DeleteOutcomes, AssistantContents, MaxPolls * sleep_halfseconds)

(* -------------------------------- state -------------------------------- *)

VARIABLES
  user_threads,     \* the global dictionary: user id -> thread id
  file,             \* THREAD_DATA_FILE
  threads,          \* remote: thread id -> its messages, oldest first
  next_thread,      \* remote: threads created so far, plus one
  delete_requests,  \* remote: the thread ids threads.delete() was called with
  deleted,          \* remote: the thread ids that are gone
  running,          \* the handler that holds the event loop, or 0
  calls,            \* the last step: whose it was, its calls, how it returned
  pc,               \* per handler: where it is
  user,             \* per handler: message.author.id
  event,            \* per handler: message
  thread_id,        \* per handler: thread_id
  run,              \* per handler: run
  elapsed,          \* per handler: time.time() - start_time at the last check
  messages_response,\* per handler: messages_response.data
  full_response,    \* per handler: full_response
  part,             \* per handler: the index in parts of the next part to send
  reset_pending,    \* history, per user: the thread a reset forgot since the
                    \* user's last message was taken up
  resolved_since,   \* history, per user: a handler of the user resolved
                    \* since the last reset for the user
  after_reset       \* history, per handler: reset_pending when it was taken up

vars == <<user_threads, file, threads, next_thread, delete_requests, running,
          calls, pc, user, event, thread_id, run, elapsed, messages_response,
          full_response, part, reset_pending, resolved_since, after_reset, deleted>>

store == <<user_threads, file>>
remote == <<threads, next_thread, delete_requests, deleted>>
history == <<reset_pending, resolved_since>>
locals == <<thread_id, run, elapsed, messages_response, full_response, part,
            after_reset>>

InitWith(H, env) ==
  /\ file \in env.files
  /\ user_threads = load_threads(file)
  /\ threads = [t \in {user_threads[u] : u \in DOMAIN user_threads} |-> << >>]
  /\ next_thread = 1
  /\ delete_requests = {}
  /\ deleted = {}
  /\ running = 0
  /\ calls = [h |-> 0, ops |-> << >>, out |-> None]
  /\ pc = [h \in H |-> "idle"]
  /\ user = [h \in H |-> 0]
  /\ event = [h \in H |-> NoEvent]
  /\ thread_id = [h \in H |-> None]
  /\ run = [h \in H |-> NoRun]
  /\ elapsed = [h \in H |-> 0]
  /\ messages_response = [h \in H |-> << >>]
  /\ full_response = [h \in H |-> << >>]
  /\ part = [h \in H |-> 0]
  /\ reset_pending = [u \in Users |-> None]
  /\ resolved_since = [u \in Users |-> FALSE]
  /\ after_reset = [h \in H |-> None]

(* ------------------------------ on_message ----------------------------- *)

\* The handler returns (or its last await is a send that nothing follows):
\* its locals are gone, the loop is free.
Return(h, out, ops) ==
  /\ pc' = [pc EXCEPT ![h] = "done"]
  /\ event' = [event EXCEPT ![h] = NoEvent]
  /\ thread_id' = [thread_id EXCEPT ![h] = None]
  /\ run' = [run EXCEPT ![h] = NoRun]
  /\ elapsed' = [elapsed EXCEPT ![h] = 0]
  /\ messages_response' = [messages_response EXCEPT ![h] = << >>]
  /\ full_response' = [full_response EXCEPT ![h] = << >>]
  /\ part' = [part EXCEPT ![h] = 0]
  /\ after_reset' = [after_reset EXCEPT ![h] = None]
  /\ running' = 0
  /\ calls' = [h |-> h, ops |-> ops, out |-> out]

\* The handler goes on to `to`, holding the loop (hold) or at an await.
Goto(h, to, hold, ops) ==
  /\ pc' = [pc EXCEPT ![h] = to]
  /\ running' = IF hold THEN h ELSE 0
  /\ calls' = [h |-> h, ops |-> ops, out |-> None]

\* What a call on thread t may raise: what the environment makes it raise,
\* and NotFoundError (an APIError) once the thread is gone.
RaisesOn(t, env) ==
  env.raises \cup (IF t \in deleted THEN {"APIError"} ELSE {})

\* Every exception reported as an unexpected error.
CaughtAsUnexpected(ex) == "unexpected_error"
\* The except clauses of on_message.
Caught(ex) ==
  CASE ex = "RateLimitError" -> "high_demand"
    [] ex = "APIError" -> "service_issue"
    [] ex = "Exception" -> "unexpected_error"

\* A handler that tries the call again instead of giving up.
ExceptRetries(h, ex, call) ==
  /\ Goto(h, pc[h], running = h, << call >>)
  /\ UNCHANGED <<event, locals>>

\* An OpenAI call of the try block raised ex: the matching except clause
\* sends its message and the handler ends.
Except(h, ex, call) ==
  Return(h, ex, << call, Send(Sent(Caught(ex), event[h].guild, None, << >>)) >>)

\* Whether the router hands the message to the assistant, answers it itself
\* or drops it.
Route(e) ==
  IF e.self THEN "Ignored"
  ELSE IF ~e.guild THEN "assistant"
  ELSE IF ~mentioned_in(e) THEN "Ignored"
  ELSE IF e.everyone THEN "Ignored"
  ELSE IF actual_content(e.content) = << >> THEN "Prompt"
  ELSE "assistant"

\* Lines 84-97 and 254-290: a message arrives and is routed, up to the first
\* await.  Handlers are numbered in the order their messages arrive.
Start(h, env) ==
  /\ pc[h] = "idle"
  /\ running = 0
  /\ \A g \in DOMAIN pc : g < h => pc[g] # "idle"
  /\ \E e \in env.events :
       /\ user' = [user EXCEPT ![h] = e.author]
       /\ IF Route(e) = "assistant"
          THEN /\ event' = [event EXCEPT ![h] = e]
               /\ after_reset' = [after_reset EXCEPT ![h] = reset_pending[e.author]]
               /\ reset_pending' = [reset_pending EXCEPT ![e.author] = None]
               /\ Goto(h, "typing", FALSE, << >>)
               /\ UNCHANGED <<thread_id, run, elapsed, messages_response,
                              full_response, part>>
          ELSE /\ Return(h, Route(e),
                         IF Route(e) = "Prompt"
                         THEN << Send(Sent("did_you_need_something", TRUE,
                                           None, << >>)) >>
                         ELSE << >>)
               /\ UNCHANGED reset_pending
  /\ UNCHANGED <<store, remote, resolved_since>>

\* Lines 102 and 116: the thread is in user_threads.
UseThread(h, found) ==
  /\ thread_id' = [thread_id EXCEPT ![h] = found]
  /\ Goto(h, "post", TRUE, << >>)
  /\ UNCHANGED <<store, remote, user, event, run, elapsed, messages_response,
                 full_response, part, reset_pending, after_reset>>

\* A create that takes the entry back when the file cannot be written.
CreateThreadRollsBack(h, env) ==
  \E w \in env.writes :
    LET id == ThreadId(next_thread)
    IN /\ next_thread' = next_thread + 1
       /\ threads' = [t \in DOMAIN threads \cup {id} |->
                        IF t = id THEN << >> ELSE threads[t]]
       /\ user_threads' = IF w = "written"
                          THEN DictPut(user_threads, user[h], id)
                          ELSE user_threads
       /\ thread_id' = [thread_id EXCEPT ![h] = id]
       /\ file' = save_threads(user_threads', file, w)
       /\ Goto(h, "post", TRUE,
               << Call("createConversation", None, id),
                  Call("save_threads", None, w) >>)
       /\ UNCHANGED <<delete_requests, deleted, user, event, run, elapsed,
                      messages_response, full_response, part, reset_pending,
                      after_reset>>

\* Lines 106-110: threads.create() returned; keep the thread and save.
CreateThread(h, env) ==
  \E w \in env.writes :
    LET id == ThreadId(next_thread)
    IN /\ next_thread' = next_thread + 1
       /\ threads' = [t \in DOMAIN threads \cup {id} |->
                        IF t = id THEN << >> ELSE threads[t]]
       /\ user_threads' = DictPut(user_threads, user[h], id)
       /\ thread_id' = [thread_id EXCEPT ![h] = id]
       /\ file' = save_threads(user_threads', file, w)
       /\ Goto(h, "post", TRUE,
               << Call("createConversation", None, id),
                  Call("save_threads", None, w) >>)
       /\ UNCHANGED <<delete_requests, deleted, user, event, run, elapsed,
                      messages_response, full_response, part, reset_pending,
                      after_reset>>

\* A failed create that leaves an entry without a thread behind.
CreateFailedStoresNone(h) ==
  /\ user_threads' = DictPut(user_threads, user[h], None)
  /\ file' = save_threads(user_threads', file, "written")
  /\ Return(h, "SessionCreationFailed",
            << Call("createConversation", None, "raised"),
               Call("save_threads", None, "written"),
               Send(Sent("could_not_start", event[h].guild, None, << >>)) >>)
  /\ UNCHANGED <<remote, user, reset_pending>>

\* Lines 111-114: threads.create() raised; tell the user and return.
CreateFailed(h) ==
  /\ Return(h, "SessionCreationFailed",
            << Call("createConversation", None, "raised"),
               Send(Sent("could_not_start", event[h].guild, None, << >>)) >>)
  /\ UNCHANGED <<store, remote, user, reset_pending>>

\* A resolve that creates a thread without looking the user up.
ResolveWithoutLookup(h, env) ==
  /\ pc[h] = "typing"
  /\ running = 0
  /\ resolved_since' = [resolved_since EXCEPT ![user[h]] = TRUE]
  /\ CreateThread(h, env) \/ CreateFailed(h)

\* Lines 101-116 and 292-307: get or create the thread of the user.
Resolve(h, env) ==
  /\ pc[h] = "typing"
  /\ running = 0
  /\ resolved_since' = [resolved_since EXCEPT ![user[h]] = TRUE]
  /\ LET found == DictGet(user_threads, user[h])
     IN IF found # None
        THEN UseThread(h, found)
        ELSE CreateThread(h, env) \/ CreateFailed(h)

\* A handler that starts the run although adding the message raised.
PostMessageIgnoresError(h, env) ==
  /\ pc[h] = "post"
  /\ running = h
  /\ \/ /\ thread_id[h] \notin deleted
        /\ threads' = [threads EXCEPT ![thread_id[h]] =
                         Append(@, Posted("user", None))]
        /\ Goto(h, "run", TRUE, << Call("postMessage", thread_id[h], "ok") >>)
        /\ UNCHANGED <<store, next_thread, delete_requests, deleted, user,
                       event, locals, history>>
     \/ \E ex \in RaisesOn(thread_id[h], env) :
          /\ Goto(h, "run", TRUE, << Call("postMessage", thread_id[h], ex) >>)
          /\ UNCHANGED <<store, remote, user, event, locals, history>>

\* Lines 119-125 and 310-316: add the user's message to the thread.
PostMessage(h, env) ==
  /\ pc[h] = "post"
  /\ running = h
  /\ \/ /\ thread_id[h] \notin deleted
        /\ threads' = [threads EXCEPT ![thread_id[h]] =
                         Append(@, Posted("user", None))]
        /\ Goto(h, "run", TRUE, << Call("postMessage", thread_id[h], "ok") >>)
        /\ UNCHANGED <<store, next_thread, delete_requests, deleted, user,
                       event, locals, history>>
     \/ \E ex \in RaisesOn(thread_id[h], env) :
          /\ Except(h, ex, Call("postMessage", thread_id[h], ex))
          /\ UNCHANGED <<store, remote, user, history>>

\* Lines 127-137 and 318-328: start the run, take start_time.
StartRun(h, env) ==
  /\ pc[h] = "run"
  /\ running = h
  /\ \/ \E s \in env.statuses : \E le \in LastErrors(s) :
          /\ thread_id[h] \notin deleted
          /\ run' = [run EXCEPT ![h] =
                       [id |-> RunId(h), status |-> s, last_error |-> le]]
          /\ elapsed' = [elapsed EXCEPT ![h] = 0]
          /\ Goto(h, "loop", TRUE, << Call("startRun", thread_id[h], s) >>)
          /\ UNCHANGED <<store, remote, user, event, thread_id,
                         messages_response, full_response, part,
                         history, after_reset>>
     \/ \E ex \in RaisesOn(thread_id[h], env) :
          /\ Except(h, ex, Call("startRun", thread_id[h], ex))
          /\ UNCHANGED <<store, remote, user, history>>

\* Lines 139-140 and 330-331: the test of the while loop, and the sleep.
LoopTest(h) ==
  /\ pc[h] = "loop"
  /\ running = h
  /\ IF run[h].status \in InFlight
     THEN Goto(h, "sleeping", FALSE, << >>)
     ELSE Goto(h, "dispatch", TRUE, << >>)
  /\ UNCHANGED <<store, remote, user, event, locals, history>>

\* A deadline that never passes.
TimedOutNever(t) == FALSE
\* time.time() - start_time > timeout_seconds, in half seconds
TimedOut(t) == t > 2 * timeout_seconds

\* Lines 140-152 and 331-342: the sleep is over; fetch the run, then check the
\* deadline.
Poll(h, env) ==
  /\ pc[h] = "sleeping"
  /\ running = 0
  /\ \/ \E s \in env.statuses : \E le \in LastErrors(s) : \E d \in env.delays :
          LET t == elapsed[h] + sleep_halfseconds + d
          IN /\ thread_id[h] \notin deleted
             /\ s \notin InFlight \/ t < env.cap \/ TimedOut(t)
             /\ run' = [run EXCEPT ![h] =
                          [id |-> @.id, status |-> s, last_error |-> le]]
             /\ elapsed' = [elapsed EXCEPT ![h] = t]
             /\ Goto(h, IF TimedOut(t) THEN "cancel" ELSE "loop", TRUE,
                     << Call("getRunStatus", thread_id[h], s) >>)
             /\ UNCHANGED <<store, remote, user, event, thread_id,
                            messages_response, full_response, part,
                            history, after_reset>>
     \/ \E ex \in RaisesOn(thread_id[h], env) :
          /\ Except(h, ex, Call("getRunStatus", thread_id[h], ex))
          /\ UNCHANGED <<store, remote, user, history>>

\* A timeout that also forgets the thread of the user.
CancelForgets(h) ==
  /\ pc[h] = "cancel"
  /\ running = h
  /\ user_threads' = DictDel(user_threads, user[h])
  /\ file' = save_threads(user_threads', file, "written")
  /\ Return(h, "Timeout",
            << Call("cancelRun", thread_id[h], "ok"),
               Call("save_threads", None, "written"),
               Send(Sent("took_too_long", event[h].guild, None, << >>)) >>)
  /\ UNCHANGED <<remote, user, history>>

\* A cancel whose exception is not caught where it is raised.
CancelRaisedEscapes(h) ==
  /\ pc[h] = "cancel"
  /\ running = h
  /\ \/ /\ thread_id[h] \notin deleted
        /\ Return(h, "Timeout",
                  << Call("cancelRun", thread_id[h], "ok"),
                     Send(Sent("took_too_long", event[h].guild, None, << >>)) >>)
     \/ Except(h, "Exception", Call("cancelRun", thread_id[h], "raised"))
  /\ UNCHANGED <<store, remote, user, history>>

\* Lines 144-152 and 335-342: the run timed out; try to cancel it, tell the
\* user, return.
Cancel(h) ==
  /\ pc[h] = "cancel"
  /\ running = h
  /\ \E res \in {"ok", "raised"} :
       /\ res = "ok" => thread_id[h] \notin deleted
       /\ Return(h, "Timeout",
              << Call("cancelRun", thread_id[h], res),
                 Send(Sent("took_too_long", event[h].guild, None, << >>)) >>)
  /\ UNCHANGED <<store, remote, user, history>>

\* Lines 226-239 and 416-427: how a run that ended other than completed is
\* reported: the outcome, and the message with the code or status it quotes.
\* Every unfinished run reported as failed.
StatusOutcomeFailed(st) == "RunFailed"
StatusOutcome(st) ==
  IF st = "requires_action" THEN "RequiresAction"
  ELSE IF st = "failed" THEN "RunFailed"
  ELSE "RunUnhandledStatus"

StatusMessage(r, g) ==
  IF r.status = "requires_action"
  THEN Sent("cannot_perform_action", g, None, << >>)
  ELSE IF r.status = "failed"
  THEN Sent("something_went_wrong", g, r.last_error, << >>)
  ELSE Sent("ended_unexpectedly", g, r.status, << >>)

\* Lines 155, 226-239 and 345, 416-427: the branches on the final run.status.
Dispatch(h) ==
  /\ pc[h] = "dispatch"
  /\ running = h
  /\ IF run[h].status = "completed"
     THEN /\ Goto(h, "list", TRUE, << >>)
          /\ UNCHANGED <<event, locals>>
     ELSE Return(h, StatusOutcome(run[h].status),
                 << Send(StatusMessage(run[h], event[h].guild)) >>)
  /\ UNCHANGED <<store, remote, user, history>>

\* Lines 157-176 and 347-363: list the messages of the thread and collect the
\* text of this run's assistant messages.
ListMessages(h, env) ==
  /\ pc[h] = "list"
  /\ running = h
  /\ \/ LET t == threads[thread_id[h]]
        IN \E cs \in [1..CountOwn(t, Len(t), run[h].id) -> env.contents] :
             LET data == Listed(t, run[h].id, cs)
                 responses == assistant_responses(data, run[h].id)
             IN /\ thread_id[h] \notin deleted
                /\ messages_response' = [messages_response EXCEPT ![h] = data]
                /\ full_response' =
                     [full_response EXCEPT ![h] = JoinResponses(responses)]
                /\ Goto(h, IF responses # << >> THEN "reply" ELSE "reset", TRUE,
                        << Call("listMessages", thread_id[h], "ok") >>)
                /\ UNCHANGED <<store, remote, user, event, thread_id, run,
                               elapsed, part, history, after_reset>>
     \/ \E ex \in RaisesOn(thread_id[h], env) :
          /\ Except(h, ex, Call("listMessages", thread_id[h], ex))
          /\ UNCHANGED <<store, remote, user, history>>

\* Lines 179-186 and 366-376: send the reply, whole if it fits one message,
\* else (after the mention, on a server) the first part.
Reply(h) ==
  /\ pc[h] = "reply"
  /\ running = h
  /\ LET g == event[h].guild
         whole == IF g THEN TCat(response_prefix(user[h]), full_response[h])
                  ELSE full_response[h]
     IN IF TLen(whole) <= single_message_limit
        THEN Return(h, "Reply", << Send(Sent("reply", g, None, whole)) >>)
        ELSE /\ part' = [part EXCEPT ![h] = IF g THEN 1 ELSE 2]
             /\ Goto(h, "parts", FALSE,
                     << Send(IF g
                             THEN Sent("mention", g, None, response_prefix(user[h]))
                             ELSE Sent("part", g, None,
                                       Parts(full_response[h])[1])) >>)
             /\ UNCHANGED <<event, thread_id, run, elapsed, messages_response,
                            full_response, after_reset>>
  /\ UNCHANGED <<store, remote, user, history>>

\* Lines 184-186 and 374-376: after the asyncio.sleep(0.5), the next part.
SendPart(h) ==
  /\ pc[h] = "parts"
  /\ running = 0
  /\ LET parts == Parts(full_response[h])
         ops == << Send(Sent("part", FALSE, None, parts[part[h]])) >>
     IN IF part[h] = Len(parts)
        THEN Return(h, "Reply", ops)
        ELSE /\ part' = [part EXCEPT ![h] = @ + 1]
             /\ Goto(h, "parts", FALSE, ops)
             /\ UNCHANGED <<event, thread_id, run, elapsed, messages_response,
                            full_response, after_reset>>
  /\ UNCHANGED <<store, remote, user, history>>

\* The reset without the remote delete.
ForgetThreadOnly(h, env, problematic_thread_id) ==
  \E w \in env.writes :
    /\ user_threads' = DictDel(user_threads, user[h])
    /\ file' = save_threads(user_threads', file, w)
    /\ reset_pending' =
         [reset_pending EXCEPT ![user[h]] = problematic_thread_id]
    /\ Return(h, "EmptyReply",
              << Call("save_threads", None, w),
                 Send(Sent("context_reset", event[h].guild, None, << >>)) >>)
    /\ UNCHANGED <<delete_requests, deleted>>

\* A reset in which the exception of threads.delete() is not caught where it
\* is raised.
ForgetThreadRaisedEscapes(h, env, problematic_thread_id) ==
  \E w \in env.writes : \E res \in env.deletes :
    /\ user_threads' = DictDel(user_threads, user[h])
    /\ file' = save_threads(user_threads', file, w)
    /\ delete_requests' = delete_requests \cup {problematic_thread_id}
    /\ deleted' = IF res \in {"deleted", "NotFoundError"}
                  THEN deleted \cup {problematic_thread_id}
                  ELSE deleted
    /\ reset_pending' =
         [reset_pending EXCEPT ![user[h]] = problematic_thread_id]
    /\ IF res = "raised"
       THEN Return(h, "Exception",
                   << Call("save_threads", None, w),
                      Call("deleteConversation", problematic_thread_id, res),
                      Send(Sent(Caught("Exception"), event[h].guild, None,
                                << >>)) >>)
       ELSE Return(h, "EmptyReply",
                   << Call("save_threads", None, w),
                      Call("deleteConversation", problematic_thread_id, res),
                      Send(Sent("context_reset", event[h].guild, None,
                                << >>)) >>)

\* Lines 196-215 and 386-405: the user is in user_threads; remove the
\* mapping, save, and try to delete the thread remotely.
ForgetThread(h, env, problematic_thread_id) ==
  \E w \in env.writes : \E res \in env.deletes :
    /\ user_threads' = DictDel(user_threads, user[h])
    /\ file' = save_threads(user_threads', file, w)
    /\ delete_requests' = delete_requests \cup {problematic_thread_id}
    /\ deleted' = IF res \in {"deleted", "NotFoundError"}
                  THEN deleted \cup {problematic_thread_id}
                  ELSE deleted
    /\ reset_pending' =
         [reset_pending EXCEPT ![user[h]] = problematic_thread_id]
    /\ Return(h, "EmptyReply",
              << Call("save_threads", None, w),
                 Call("deleteConversation", problematic_thread_id, res),
                 Send(Sent("context_reset", event[h].guild, None, << >>)) >>)

\* Lines 200-201, 216-217 and 390-391, 406-407: the user is not in
\* user_threads; there is nothing to remove and no thread id to delete.
NothingToForget(h) ==
  /\ reset_pending' = [reset_pending EXCEPT ![user[h]] = thread_id[h]]
  /\ Return(h, "EmptyReply",
            << Send(Sent("context_reset", event[h].guild, None, << >>)) >>)
  /\ UNCHANGED <<store, delete_requests, deleted>>

\* A reset that asks the remote to delete the thread of the entry and
\* leaves the entry where it is.
ResetThreadKeepsEntry(h, env) ==
  /\ pc[h] = "reset"
  /\ running = h
  /\ IF user[h] \in DOMAIN user_threads
     THEN \E res \in env.deletes :
            LET problematic_thread_id == DictGet(user_threads, user[h])
            IN /\ delete_requests' =
                    delete_requests \cup {problematic_thread_id}
               /\ deleted' = IF res \in {"deleted", "NotFoundError"}
                             THEN deleted \cup {problematic_thread_id}
                             ELSE deleted
               /\ reset_pending' =
                    [reset_pending EXCEPT ![user[h]] = problematic_thread_id]
               /\ Return(h, "EmptyReply",
                         << Call("deleteConversation", problematic_thread_id,
                                 res),
                            Send(Sent("context_reset", event[h].guild, None,
                                      << >>)) >>)
               /\ UNCHANGED store
     ELSE NothingToForget(h)
  /\ resolved_since' = [resolved_since EXCEPT ![user[h]] = FALSE]
  /\ UNCHANGED <<threads, next_thread, user>>

\* Lines 189-223 and 379-413: no text was found; forget the thread of the
\* user, try to delete it remotely, tell the user.
ResetThread(h, env) ==
  /\ pc[h] = "reset"
  /\ running = h
  /\ IF user[h] \in DOMAIN user_threads
     THEN ForgetThread(h, env, DictGet(user_threads, user[h]))
     ELSE NothingToForget(h)
  /\ resolved_since' = [resolved_since EXCEPT ![user[h]] = FALSE]
  /\ UNCHANGED <<threads, next_thread, user>>

\* The remote assistant appends a message of handler h's run to its thread
\* while the run is in flight.
AssistantReplies(h) ==
  /\ pc[h] = "sleeping"
  /\ running = 0
  /\ CountOwn(threads[thread_id[h]], Len(threads[thread_id[h]]), run[h].id)
       < MaxAssistantMsgs
  /\ thread_id[h] \notin deleted
  /\ threads' = [threads EXCEPT ![thread_id[h]] =
                   Append(@, Posted("assistant", run[h].id))]
  /\ calls' = [h |-> 0, ops |-> << >>, out |-> None]
  /\ UNCHANGED <<store, next_thread, delete_requests, deleted, running, pc,
                 user, event, locals, history>>

Step(h, env) ==
  \/ Start(h, env)
  \/ Resolve(h, env)
  \/ PostMessage(h, env)
  \/ StartRun(h, env)
  \/ LoopTest(h)
  \/ Poll(h, env)
  \/ Cancel(h)
  \/ Dispatch(h)
  \/ ListMessages(h, env)
  \/ Reply(h)
  \/ SendPart(h)
  \/ ResetThread(h, env)
  \/ AssistantReplies(h)

(* ---------------------------- specifications --------------------------- *)

\* Two messages, from either user, in the full environment.
Handlers == 1..NumHandlers
Init == InitWith(Handlers, FullEnv)
Next == \E h \in Handlers : Step(h, FullEnv)
Spec == Init /\ [][Next]_vars

\* One direct message whose run the remote may leave unfinished for twice
\* the timeout, the time passing in the sleeps alone.
PollEnv ==
  Env({DirectMessage}, {Missing}, {"written"}, {"Exception"}, RunStatus, {0},
      {"deleted"}, AssistantContents, 4 * timeout_seconds)
InitPoll == InitWith({1}, PollEnv)
NextPoll == Step(1, PollEnv)
SpecPoll == InitPoll /\ [][NextPoll]_vars

\* One message, of any kind, in the widest environment: every file, every
\* length of reply.
OneEnv ==
  Env(InboundEvents \cup {EmptyDirectMessage}, AllFiles, WriteOutcomes,
      Raises, RunStatus, Delays, DeleteOutcomes,
      AssistantContents \cup LongContents, MaxPolls * sleep_halfseconds)
InitOne == InitWith({1}, OneEnv)
NextOne == Step(1, OneEnv)
SpecOne == InitOne /\ [][NextOne]_vars

\* Two messages of two users, each handler taking its steps whenever it can:
\* the event loop runs every task that is ready.
LiveEnv ==
  Env({DirectMessage, Event(12, FALSE, TRUE, TRUE, FALSE, <<"M", "SP", "W">>)},
      {Missing}, {"written"}, Raises,
      {"in_progress", "completed", "failed"}, Delays, {"raised"},
      AssistantContents, MaxPolls * sleep_halfseconds)
InitLive == InitWith(Handlers, LiveEnv)
NextLive == \E h \in Handlers : Step(h, LiveEnv)
SpecLive ==
  InitLive /\ [][NextLive]_vars
    /\ \A h \in Handlers : WF_vars(Step(h, LiveEnv))

\* One message more, all direct messages of one user; the remote neither
\* raises nor leaves a run unfinished after the first fetch.
RaceEnv ==
  Env({DirectMessage}, {Missing}, {"written"}, {}, {"queued", "completed"},
      Delays, {"deleted", "raised"},
      {<< ImageBlock >>, << TextBlock(Rep("c", LongLen)) >>}, 0)
RaceHandlers == 1..(NumHandlers + 1)
InitRace == InitWith(RaceHandlers, RaceEnv)
NextRace == \E h \in RaceHandlers : Step(h, RaceEnv)
SpecRace == InitRace /\ [][NextRace]_vars

(* -------------------------------- claims ------------------------------- *)

\* How many of the calls ops are calls of op.
CallsOf(ops, op) == Cardinality({i \in 1..Len(ops) : ops[i].op = op})

\* The step is handler h's, taken from `at`.
StepFrom(h, at) == pc[h] = at /\ calls'.h = h

\* C1: a resolve of a user without an entry in user_threads makes exactly
\* one createConversation call and, when the call returns an id, adds the one
\* entry user -> id (a fresh id) and goes on with it; a resolve of a user
\* with an entry makes no call at all, leaves dictionary and file as they
\* are and goes on with the id of the entry.
C1_ResolveGetsOrCreates ==
  [][\A h \in DOMAIN pc : StepFrom(h, "typing") =>
       LET u == user[h]
           ops == calls'.ops
       IN IF u \notin DOMAIN user_threads
          THEN /\ CallsOf(ops, "createConversation") = 1
               /\ ops[1].op = "createConversation"
               /\ ops[1].res # "raised" =>
                    /\ ops[1].res \notin DOMAIN threads
                    /\ DOMAIN user_threads' = DOMAIN user_threads \cup {u}
                    /\ user_threads'[u] = ops[1].res
                    /\ \A x \in DOMAIN user_threads :
                         user_threads'[x] = user_threads[x]
                    /\ thread_id'[h] = ops[1].res
          ELSE /\ ops = << >>
               /\ user_threads' = user_threads
               /\ file' = file
               /\ next_thread' = next_thread
               /\ thread_id'[h] = user_threads[u]
               /\ pc'[h] = "post"]_vars

\* Handler 2 has resolved its user right after handler 1 created the thread
\* of the same user, and got the same id.
C1_SecondResolveSameId ==
  /\ user[1] = 12 /\ user[2] = 12
  /\ pc[1] = "sleeping" /\ pc[2] = "post"
  /\ next_thread = 2
  /\ thread_id[1] = ThreadId(1) /\ thread_id[2] = ThreadId(1)
  /\ user_threads[12] = ThreadId(1)

\* What handler h's reset step does besides the remote delete: the user has
\* no entry afterwards, the handler ends in EmptyReply and its last call
\* tells the user that the context was reset.
ResetEffect(h) ==
  /\ user[h] \notin DOMAIN user_threads'
  /\ \A x \in DOMAIN user_threads \ {user[h]} :
       x \in DOMAIN user_threads' /\ user_threads'[x] = user_threads[x]
  /\ pc'[h] = "done"
  /\ calls'.out = "EmptyReply"
  /\ calls'.ops[Len(calls'.ops)].op = "send"
  /\ calls'.ops[Len(calls'.ops)].arg.kind = "context_reset"

\* The completed run of handler h listed its thread in this step and found
\* no text of its own.
ListedNothing(h) ==
  /\ StepFrom(h, "list")
  /\ CallsOf(calls'.ops, "listMessages") = 1
  /\ calls'.ops[1].res = "ok"
  /\ \A i \in 1..Len(messages_response'[h]) :
       LET msg == messages_response'[h][i]
       IN (msg.role = "assistant" /\ msg.run_id = run[h].id) =>
            \A j \in 1..Len(msg.content) : msg.content[j].type # "text"

C3_NextMessageAfterReset ==
  [][\A h \in DOMAIN pc :
       (StepFrom(h, "typing") /\ after_reset[h] # None) =>
         /\ pc'[h] = "post" => thread_id'[h] # after_reset[h]
         /\ ~resolved_since[user[h]] =>
              /\ user[h] \notin DOMAIN user_threads
              /\ CallsOf(calls'.ops, "createConversation") = 1
              /\ calls'.ops[1].res # "raised" =>
                   /\ pc'[h] = "post"
                   /\ thread_id'[h] = calls'.ops[1].res]_vars

\* C3 as stated: the next message of a user after a reset for the user
\* finds no entry, calls createConversation and (when the call returns an
\* id) runs on the new thread, which is not the one the reset forgot.
C3_NextMessageAlwaysCreates ==
  [][\A h \in DOMAIN pc :
       (StepFrom(h, "typing") /\ after_reset[h] # None) =>
         /\ user[h] \notin DOMAIN user_threads
         /\ CallsOf(calls'.ops, "createConversation") = 1
         /\ calls'.ops[1].res # "raised" =>
              /\ pc'[h] = "post"
              /\ thread_id'[h] = calls'.ops[1].res
              /\ thread_id'[h] # after_reset[h]]_vars

\* The second message came after the reset that ended the first and has
\* just created the thread it runs on.
C3_NewThreadAfterReset ==
  /\ pc[1] = "done" /\ pc[2] = "post" /\ pc[3] = "idle"
  /\ after_reset[2] = ThreadId(1)
  /\ thread_id[2] = ThreadId(2)
  /\ user_threads[7] = ThreadId(2)
  /\ calls.h = 2
  /\ CallsOf(calls.ops, "createConversation") = 1

\* Where a handler is while it executes its run, the reset apart.
RunPhase ==
  {"post", "run", "loop", "sleeping", "cancel", "dispatch", "list", "reply",
   "parts"}

\* C4: no step a handler takes while it executes its run, the reset apart,
\* changes user_threads or the file, saves, or asks for a thread to be
\* deleted; and a handler that ends in a reply, Timeout, RequiresAction,
\* RunFailed or RunUnhandledStatus ends by such a step.
C4_RunPhaseKeepsStore ==
  [][\A h \in DOMAIN pc :
       /\ (calls'.h = h /\ pc[h] \in RunPhase) =>
            /\ user_threads' = user_threads
            /\ file' = file
            /\ delete_requests' = delete_requests
            /\ deleted' = deleted
            /\ CallsOf(calls'.ops, "save_threads") = 0
            /\ CallsOf(calls'.ops, "deleteConversation") = 0
       /\ (calls'.h = h /\ calls'.out \in {"Reply", "Timeout", "RequiresAction",
                                          "RunFailed", "RunUnhandledStatus"}) =>
            pc[h] \in RunPhase]_vars

\* A handler has just ended in Timeout and the thread it resolved is still
\* the thread of its user, in the dictionary and in the file.
C4_TimeoutKeptThread ==
  /\ calls.out = "Timeout"
  /\ calls.h = 1
  /\ user[1] = 12
  /\ user_threads = [u \in {12} |-> ThreadId(1)]
  /\ file = data_to_save(user_threads)
  /\ delete_requests = {}

\* C5: when createConversation raises in the resolve, user_threads and the
\* file stay as they are and nothing is saved, the user is sent the
\* could-not-start message and the handler is done, having called
\* createConversation once and neither postMessage nor startRun; and a
\* handler that is done takes no further step.
C5_CreateFailureEndsHandler ==
  [][\A h \in DOMAIN pc :
       /\ (StepFrom(h, "typing") /\ calls'.ops # << >>
              /\ calls'.ops[1].res = "raised") =>
            /\ user_threads' = user_threads
            /\ file' = file
            /\ next_thread' = next_thread
            /\ pc'[h] = "done"
            /\ calls'.out = "SessionCreationFailed"
            /\ Len(calls'.ops) = 2
            /\ calls'.ops[1].op = "createConversation"
            /\ calls'.ops[2].op = "send"
            /\ calls'.ops[2].arg.kind = "could_not_start"
            /\ calls'.ops[2].arg.mention = event[h].guild
       /\ pc[h] = "done" => pc'[h] = "done" /\ calls'.h # h]_vars

\* The create of a handler failed, the handler is done, and the other
\* handler went on to the end: the user still has no entry and the file was
\* never written.
C5_CreateFailedNoEntry ==
  /\ pc[1] = "done" /\ pc[2] = "done"
  /\ user[1] = 12 /\ user[2] = 7
  /\ next_thread = 1
  /\ user_threads = EmptyDict
  /\ file = Missing
  /\ calls.out = "SessionCreationFailed"

\* C6: while a handler is in the polling loop no more than timeout_seconds
\* have been counted since the run was submitted, and when it leaves the
\* loop for the timeout no more than one sleep more; whatever the statuses,
\* a handler that has counted more than timeout_seconds is at the timeout.
C6_PollingEndsInTime ==
  \A h \in DOMAIN pc :
    /\ pc[h] \in {"loop", "sleeping"} => elapsed[h] <= 2 * timeout_seconds
    /\ elapsed[h] <= 2 * timeout_seconds + sleep_halfseconds
    /\ elapsed[h] > 2 * timeout_seconds => pc[h] = "cancel"
    /\ pc[h] = "cancel" => elapsed[h] > 2 * timeout_seconds

\* The run has been in flight at every fetch, and the fetch after 121.5 s
\* says so too: the handler is at the timeout.
C6_TimeoutAtDeadline ==
  /\ pc[1] = "cancel"
  /\ elapsed[1] = 2 * timeout_seconds + sleep_halfseconds
  /\ run[1].status = "in_progress"

\* C7: a run that left the loop with a status other than completed ends the
\* handler at once, with one send and no listMessages: requires_action as
\* RequiresAction, failed as RunFailed with the error code of the run when
\* it has one, any other status (cancelled, expired) as RunUnhandledStatus
\* with the status.
C7_StatusDecidesOutcome ==
  [][\A h \in DOMAIN pc :
       (StepFrom(h, "dispatch") /\ run[h].status # "completed") =>
         LET st == run[h].status
             m == calls'.ops[1].arg
         IN /\ pc'[h] = "done"
            /\ Len(calls'.ops) = 1
            /\ calls'.ops[1].op = "send"
            /\ CallsOf(calls'.ops, "listMessages") = 0
            /\ st = "requires_action" =>
                 calls'.out = "RequiresAction" /\ m.kind = "cannot_perform_action"
            /\ st = "failed" =>
                 /\ calls'.out = "RunFailed"
                 /\ m.kind = "something_went_wrong"
                 /\ m.detail = run[h].last_error
            /\ st \notin {"requires_action", "failed"} =>
                 /\ calls'.out = "RunUnhandledStatus"
                 /\ m.kind = "ended_unexpectedly"
                 /\ m.detail = st]_vars

\* A handler has just reported a failed run with the error code of the run.
C7_FailedWithCode ==
  /\ calls.out = "RunFailed"
  /\ Len(calls.ops) = 1
  /\ calls.ops[1].arg.detail = "server_error"
  /\ pc[calls.h] = "done"

\* C8 as stated: the timeout (and with it the cancelRun request) is reached
\* only with a run whose last fetched status is queued, in_progress or
\* cancelling; a fetch that says completed leads to the extraction.
C8_TimeoutOnlyInFlight ==
  \A h \in DOMAIN pc : pc[h] = "cancel" => run[h].status \in InFlight

\* The text segments the scan of data for run rid meets, oldest first.
RECURSIVE Chronological(_, _, _)
Chronological(data, i, rid) ==
  IF i = 0 THEN << >>
  ELSE LET msg == data[i]
           got == IF msg.run_id = rid /\ msg.role = "assistant"
                  THEN TextsOf(msg.content) ELSE << >>
       IN IF msg.role = "user" /\ msg.run_id # rid
          THEN got
          ELSE Chronological(data, i - 1, rid) \o got

\* C9 as stated: the reply is the text segments collected for this run,
\* joined by newline in the order they have in the oldest-first list of
\* messages.
C9_ReplyInChronologicalOrder ==
  \A h \in DOMAIN pc :
    pc[h] \in {"reply", "parts"} =>
      full_response[h] =
        TJoin(Chr("\n"),
              Chronological(messages_response[h], Len(messages_response[h]),
                            run[h].id))

\* The threads created in this process that user_threads does not refer to.
Unreferenced ==
  {ThreadId(n) : n \in 1..(next_thread - 1)}
    \ {user_threads[u] : u \in DOMAIN user_threads}

\* Handlers g and h are two handlers of one user, who had no entry when the
\* process started.
SameNewUser(g, h) ==
  /\ g # h
  /\ user[g] # 0
  /\ user[g] = user[h]
  /\ ~(user[g] \in DOMAIN InitStore /\ ThreadId(0) \in DOMAIN threads)

\* C10 as amended: with two handlers of one never-before-seen user, a
\* resolve ends either with the handler on the thread of the user's entry or,
\* when createConversation itself raised, with the could-not-start message,
\* whatever the write of the file does; and at most one thread ends up
\* created but neither referred to by user_threads nor handed to
\* deleteConversation by a reset.
C10_RaceLeavesNoOrphans ==
  [][\A g, h \in DOMAIN pc :
       SameNewUser(g, h)' =>
         /\ StepFrom(h, "typing") =>
              \/ /\ pc'[h] = "post"
                 /\ user[h] \in DOMAIN user_threads'
                 /\ thread_id'[h] = user_threads'[user[h]]
              \/ /\ calls'.out = "SessionCreationFailed"
                 /\ calls'.ops[1].res = "raised"
         /\ Cardinality(Unreferenced' \ delete_requests') <= 1]_vars

\* C10 as stated: with two handlers of one never-before-seen user, at most
\* one thread ends up created (and not deleted remotely) but not referred to
\* by user_threads.
C10_AtMostOneUnreferenced ==
  (\E g, h \in DOMAIN pc : SameNewUser(g, h)) =>
    Cardinality(Unreferenced \ deleted) <= 1

\* Two handlers of one new user: the first created a thread, which its reset
\* forgot and handed to deleteConversation while the second waited at
\* typing(); the second has created another and runs on it.
C10_SecondThreadAfterReset ==
  /\ user[1] = 12 /\ user[2] = 12
  /\ pc[1] = "done" /\ pc[2] = "sleeping"
  /\ thread_id[2] = ThreadId(2)
  /\ user_threads[12] = ThreadId(2)
  /\ delete_requests = {ThreadId(1)}
  /\ file.kind = "malformed"

\* The text the router extracts from a message: the content, without the
\* mentions of the bot in a server.
ExtractedText(e) == IF e.guild THEN actual_content(e.content) ELSE e.content

\* C11 as stated: a handler whose message has no text left after the
\* extraction, in a direct message as in a server, calls none of
\* createConversation, postMessage and startRun and leaves user_threads and
\* the file as they are.
C11_EmptyTextStopsAtRouter ==
  [][\A h \in DOMAIN pc :
       (calls'.h = h /\ pc[h] \notin {"idle", "done"}
          /\ ExtractedText(event[h]) = << >>) =>
         /\ CallsOf(calls'.ops, "createConversation") = 0
         /\ CallsOf(calls'.ops, "postMessage") = 0
         /\ CallsOf(calls'.ops, "startRun") = 0
         /\ user_threads' = user_threads
         /\ file' = file]_vars

\* The remote calls a handler makes after its resolve.
CallsAfterResolve == {"postMessage", "startRun", "getRunStatus", "listMessages"}

\* C12: when a remote call made after the resolve raises RateLimitError or
\* APIError the handler ends in that very step, having sent the high-demand
\* or the service-issue message (both ask to try again), and user_threads,
\* the file and the remote threads are as they were before the call.
C12_ApiErrorKeepsStore ==
  [][\A h \in DOMAIN pc :
       (calls'.h = h /\ calls'.ops # << >>
          /\ calls'.ops[1].op \in CallsAfterResolve
          /\ calls'.ops[1].res \in {"RateLimitError", "APIError"}) =>
         /\ calls'.out = calls'.ops[1].res
         /\ pc'[h] = "done"
         /\ user_threads' = user_threads
         /\ file' = file
         /\ threads' = threads
         /\ next_thread' = next_thread
         /\ delete_requests' = delete_requests
         /\ Len(calls'.ops) = 2
         /\ calls'.ops[2].op = "send"
         /\ calls'.ops[2].arg.kind =
              (IF calls'.out = "RateLimitError" THEN "high_demand"
               ELSE "service_issue")
         /\ calls'.ops[2].arg.mention = event[h].guild]_vars

\* The status fetch of a handler has just raised APIError: the handler is
\* done and the thread it created is still the thread of its user.
C12_FetchFailedEntryKept ==
  /\ calls.h = 1
  /\ calls.out = "APIError"
  /\ calls.ops[1].op = "getRunStatus"
  /\ pc[1] = "done"
  /\ user[1] = 12
  /\ user_threads = [u \in {12} |-> ThreadId(1)]
  /\ calls.ops[1].arg = ThreadId(1)

\* C13: a handler that was given to the assistant finishes, and the step by
\* which a handler past the routing finishes sends a message to the user,
\* whatever the outcome and whatever the other handler does.
C13_RoutedHandlersFinish ==
  /\ \A h \in Handlers : (pc[h] = "typing") ~> (pc[h] = "done")
  /\ [][\A h \in Handlers :
          (pc[h] \notin {"idle", "done"} /\ pc'[h] = "done") =>
            /\ calls'.h = h
            /\ calls'.ops # << >>
            /\ calls'.ops[Len(calls'.ops)].op = "send"
            /\ calls'.out # None]_vars

\* A call of handler 1 has just raised an unclassified exception while the
\* handler of the other user is in the middle of its run.
C13_ExceptionBesideOtherUser ==
  /\ calls.h = 1
  /\ calls.out = "Exception"
  /\ pc[1] = "done"
  /\ pc[2] = "sleeping"
  /\ user[1] # user[2]

\* C14: a reply is sent whole when it (with the mention, in a server) has at
\* most 2000 characters and in parts otherwise; part k is the characters
\* (k-1)*1990 .. k*1990-1 of the reply, the parts are sent in the order of k,
\* the last one is part ceil(length / 1990), the parts put together are the
\* reply, and nothing sent has more than 2000 characters.
C14_PartsCoverReplyInOrder ==
  [][\A h \in DOMAIN pc :
       (StepFrom(h, "reply") \/ StepFrom(h, "parts")) =>
         LET t == full_response[h]
             n == TLen(t)
             count == (n + 1989) \div 1990
             k == IF pc[h] = "parts" THEN part[h] ELSE 1
             m == calls'.ops[1].arg
             whole == IF event[h].guild
                      THEN TCat(response_prefix(user[h]), t) ELSE t
         IN /\ Len(calls'.ops) = 1
            /\ TLen(m.text) <= 2000
            /\ pc[h] = "reply" =>
                 /\ m.kind = "reply" <=> TLen(whole) <= 2000
                 /\ m.kind = "reply" => m.text = whole /\ pc'[h] = "done"
                 /\ m.kind = "mention" =>
                      /\ event[h].guild
                      /\ m.text = response_prefix(user[h])
                      /\ pc'[h] = "parts" /\ part'[h] = 1
                 /\ m.kind \in {"reply", "mention", "part"}
                 /\ m.kind = "part" => ~event[h].guild
            /\ pc[h] = "parts" => m.kind = "part"
            /\ m.kind = "part" =>
                 /\ m.text = TTake(TDrop(t, (k - 1) * 1990), 1990)
                 /\ TLen(m.text) >= 1 /\ TLen(m.text) <= 1990
                 /\ k <= count
                 /\ pc'[h] = "done" <=> k = count
                 /\ pc'[h] # "done" => pc'[h] = "parts" /\ part'[h] = k + 1
                 /\ TJoin(<< >>, [j \in 1..count |->
                                   TTake(TDrop(t, (j - 1) * 1990), 1990)]) = t]_vars

\* The handler has just sent the third and last part, of 1020 characters,
\* of a reply of 5000.
C14_ThirdPartOfThree ==
  /\ calls.out = "Reply"
  /\ pc[1] = "done"
  /\ calls.ops[1].arg.kind = "part"
  /\ TLen(calls.ops[1].arg.text) = LongLen - 2 * chunk_size
  /\ calls.ops[1].arg.text = Rep("d", LongLen - 2 * chunk_size)

\* C15: loading what save_threads writes gives the dictionary back, its keys
\* integers again: for the dictionary of every reachable state, and for the
\* file of every step that saves and whose write succeeds.
C15_LoadAfterSaveIsIdentity ==
  [][/\ load_threads(save_threads(user_threads', file, "written")) = user_threads'
     /\ DOMAIN load_threads(data_to_save(user_threads')) \subseteq Nat
     /\ \A i \in 1..Len(calls'.ops) :
          (calls'.ops[i].op = "save_threads" /\ calls'.ops[i].res = "written") =>
            /\ file'.kind = "object"
            /\ \A m \in file'.members : m[1] \in Seq(Digits \X Nat)
            /\ load_threads(file') = user_threads']_vars

\* The handler of user 7 has just created a thread and saved the dictionary,
\* which was loaded with the users 12 and 120: three keys of one, two and
\* three digits.
C15_SavedThreeUsers ==
  /\ DOMAIN user_threads = {7, 12, 120}
  /\ user_threads[7] = ThreadId(1)
  /\ Len(calls.ops) = 2
  /\ calls.ops[2].op = "save_threads"
  /\ calls.ops[2].res = "written"
  /\ Cardinality(file.members) = 3
  /\ <<IntToStr(120), "thread_a">> \in file.members

\* C16: whatever the file, load_threads leaves a dictionary and the process
\* goes on: the empty one when the file is missing, is not JSON, is not an
\* object or has a key that is not a numeral (no member of such a file is
\* kept), and one entry per member otherwise.
C16_LoadFailureLeavesEmpty ==
  (\A h \in DOMAIN pc : pc[h] = "idle") =>
    IF file.kind = "object" /\ \A m \in file.members : IsIntStr(m[1])
    THEN /\ Cardinality(DOMAIN user_threads) = Cardinality(file.members)
         /\ \A m \in file.members :
              \E u \in DOMAIN user_threads :
                IntToStr(u) = m[1] /\ user_threads[u] = m[2]
    ELSE user_threads = EmptyDict

\* The file had a key that is no numeral beside one that is: nothing was
\* loaded, and the process has taken up a message.
C16_ForeignKeyNothingLoaded ==
  /\ file = ForeignKey
  /\ user_threads = EmptyDict
  /\ pc[1] = "typing"

\* C17: a save whose write fails changes nothing but the file: the entry a
\* resolve has put stays in user_threads and the handler goes on to post on
\* the new thread, the entry a reset has removed stays removed, the handler
\* ends as it would have; and a resolve of a user with an entry uses the
\* entry of the dictionary, whatever the file holds.
C17_FailedWriteKeepsMemory ==
  [][\A h \in DOMAIN pc :
       /\ (StepFrom(h, "typing") /\ Len(calls'.ops) = 2
              /\ calls'.ops[2].op = "save_threads"
              /\ calls'.ops[2].res # "written") =>
            /\ calls'.ops[1].op = "createConversation"
            /\ user[h] \in DOMAIN user_threads'
            /\ user_threads'[user[h]] = calls'.ops[1].res
            /\ thread_id'[h] = calls'.ops[1].res
            /\ pc'[h] = "post"
            /\ calls'.out = None
            /\ file' = (IF calls'.ops[2].res = "open_raises"
                        THEN file ELSE Malformed)
       /\ (StepFrom(h, "reset") /\ calls'.ops[1].op = "save_threads"
              /\ calls'.ops[1].res # "written") =>
            /\ user[h] \notin DOMAIN user_threads'
            /\ calls'.out = "EmptyReply"
       /\ (StepFrom(h, "typing") /\ user[h] \in DOMAIN user_threads) =>
            /\ thread_id'[h] = user_threads[user[h]]
            /\ pc'[h] = "post"]_vars

\* The write of the file failed when handler 1 created the thread of its
\* user, so the file is still missing; handler 2 looked the same user up
\* afterwards and got that thread.
C17_LookupAfterFailedWrite ==
  /\ file = Missing
  /\ user[1] = 12 /\ user[2] = 12
  /\ user_threads = [u \in {12} |-> ThreadId(1)]
  /\ pc[1] = "sleeping"
  /\ pc[2] = "post"
  /\ thread_id[2] = ThreadId(1)
  /\ calls.h = 2

C19_ResetOnlyWithoutText ==
  \A h \in DOMAIN pc :
    pc[h] = "reset" =>
      \A i \in 1..Len(messages_response[h]) :
        LET msg == messages_response[h][i]
        IN (msg.role = "assistant" /\ msg.run_id = run[h].id) =>
             \A j \in 1..Len(msg.content) : msg.content[j].type # "text"

\* C20: a fetch after which more than timeout_seconds are counted leads to
\* the timeout and nothing else does; there the handler calls cancelRun once,
\* for its thread, then sends the took-too-long message and is done with
\* Timeout, whether cancelRun raised or not; it makes no other call in that
\* step and takes no step afterwards.
C20_TimeoutCancelsOnce ==
  [][\A h \in DOMAIN pc :
       /\ (StepFrom(h, "sleeping") /\ calls'.out = None) =>
            (pc'[h] = "cancel" <=> elapsed'[h] > 2 * timeout_seconds)
       /\ (pc'[h] = "cancel" /\ pc[h] # "cancel") => StepFrom(h, "sleeping")
       /\ StepFrom(h, "cancel") =>
            /\ Len(calls'.ops) = 2
            /\ calls'.ops[1].op = "cancelRun"
            /\ calls'.ops[1].arg = thread_id[h]
            /\ calls'.ops[2].op = "send"
            /\ calls'.ops[2].arg.kind = "took_too_long"
            /\ calls'.out = "Timeout"
            /\ pc'[h] = "done"
            /\ user_threads' = user_threads
            /\ delete_requests' = delete_requests
       /\ (pc[h] = "done" /\ pc'[h] = "done") => calls'.h # h]_vars

\* A handler has just ended in Timeout although its cancelRun raised.
C20_TimeoutAfterFailedCancel ==
  /\ calls.out = "Timeout"
  /\ calls.ops[1].op = "cancelRun"
  /\ calls.ops[1].res = "raised"
  /\ calls.ops[2].arg.kind = "took_too_long"
  /\ pc[calls.h] = "done"

\* C21: the calls of a reset come in this order: save_threads, after the
\* entry of the user has been taken out of the dictionary that is saved;
\* then deleteConversation; then the send of the context-was-reset message,
\* which is the last call whatever deleteConversation returned or raised.
\* When the user has no entry as the reset begins there is nothing to remove
\* and nothing to delete, and the message is the only call.
C21_TeardownBeforeMessage ==
  [][\A h \in DOMAIN pc :
       StepFrom(h, "reset") =>
         LET ops == calls'.ops
             n == Len(ops)
         IN /\ n >= 1
            /\ ops[n].op = "send"
            /\ ops[n].arg.kind = "context_reset"
            /\ CallsOf(ops, "send") = 1
            /\ calls'.out = "EmptyReply"
            /\ user[h] \notin DOMAIN user_threads'
            /\ IF user[h] \in DOMAIN user_threads
               THEN /\ n = 3
                    /\ ops[1].op = "save_threads"
                    /\ file' = save_threads(DictDel(user_threads, user[h]),
                                            file, ops[1].res)
                    /\ ops[2].op = "deleteConversation"
                    /\ ops[2].res \in DeleteOutcomes
                    /\ ops[2].arg \in delete_requests'
               ELSE n = 1]_vars

\* A reset has just told the user that the context was reset, after the
\* file was written without the entry and threads.delete() said not found.
C21_MessageAfterNotFound ==
  /\ calls.out = "EmptyReply"
  /\ Len(calls.ops) = 3
  /\ calls.ops[1].res = "written"
  /\ calls.ops[2].op = "deleteConversation"
  /\ calls.ops[2].res = "NotFoundError"
  /\ calls.ops[3].arg.kind = "context_reset"
  /\ file = data_to_save(user_threads)
  /\ user[calls.h] \notin DOMAIN user_threads

\* C22: a step that changes user_threads calls save_threads in the same
\* step, which ends at the handler's next await at the latest; after a step
\* whose save was written the file is the whole dictionary, key by key, and
\* loads as the dictionary; and when the file loads as the dictionary before
\* a step none of whose writes fails, it loads as the dictionary after it.
C22_FileFollowsStore ==
  [][LET ops == calls'.ops
         saves == {i \in 1..Len(ops) : ops[i].op = "save_threads"}
     IN /\ user_threads' # user_threads => saves # {}
        /\ file' # file => saves # {}
        /\ (\E i \in saves : ops[i].res = "written") =>
             /\ file' = data_to_save(user_threads')
             /\ load_threads(file') = user_threads'
        /\ ((\A i \in saves : ops[i].res = "written")
               /\ load_threads(file) = user_threads) =>
             load_threads(file') = user_threads']_vars

\* The entry of user 7 has just been removed and the file written: the
\* file holds the entry of user 12, created before, and nothing else, and
\* the event loop is free.
C22_FileAfterRemoval ==
  /\ running = 0
  /\ calls.out = "EmptyReply"
  /\ calls.ops[1].op = "save_threads"
  /\ calls.ops[1].res = "written"
  /\ user[calls.h] = 7
  /\ DOMAIN user_threads = {12}
  /\ file = Object({<<IntToStr(12), user_threads[12]>>})

\* The operations of the remote assistant a handler calls before its reply.
RemoteOps ==
  {"createConversation", "postMessage", "startRun", "getRunStatus",
   "cancelRun", "listMessages"}

\* C23: a handler calls createConversation only in its resolve and only
\* when its user has no entry; postMessage only next, on the thread it
\* resolved; startRun only after a postMessage that returned, on the same
\* thread; getRunStatus only in the polling that follows a startRun that
\* returned; cancelRun only out of the polling and listMessages only when
\* the status it holds is completed, and after either of the two neither is
\* called again, nor any of the operations before them.
C23_ProtocolOrder ==
  [][\A h \in DOMAIN pc :
       LET ops == calls'.ops
       IN /\ calls'.h = h =>
               /\ \A op \in RemoteOps : CallsOf(ops, op) <= 1
               /\ CallsOf(ops, "createConversation") = 1 =>
                    pc[h] = "typing" /\ user[h] \notin DOMAIN user_threads
               /\ CallsOf(ops, "postMessage") = 1 =>
                    pc[h] = "post" /\ ops[1].arg = thread_id[h]
               /\ CallsOf(ops, "startRun") = 1 =>
                    pc[h] = "run" /\ ops[1].arg = thread_id[h]
               /\ CallsOf(ops, "getRunStatus") = 1 =>
                    pc[h] = "sleeping" /\ ops[1].arg = thread_id[h]
               /\ CallsOf(ops, "cancelRun") = 1 =>
                    pc[h] = "cancel" /\ ops[1].arg = thread_id[h]
               /\ CallsOf(ops, "listMessages") = 1 =>
                    /\ pc[h] = "list" /\ ops[1].arg = thread_id[h]
                    /\ run[h].status = "completed"
                    /\ run[h].id = RunId(h)
          /\ pc'[h] # pc[h] =>
               /\ pc'[h] = "post" =>
                    /\ pc[h] = "typing"
                    /\ thread_id'[h] # None
                    /\ user[h] \in DOMAIN user_threads'
                    /\ thread_id'[h] = user_threads'[user[h]]
               /\ pc'[h] = "run" =>
                    /\ pc[h] = "post"
                    /\ ops = << Call("postMessage", thread_id[h], "ok") >>
               /\ pc'[h] = "loop" =>
                    /\ pc[h] \in {"run", "sleeping"}
                    /\ pc[h] = "run" =>
                         /\ ops[1].op = "startRun"
                         /\ ops[1].res \in RunStatus
                         /\ run'[h].status = ops[1].res
                    /\ pc[h] = "sleeping" =>
                         /\ ops[1].op = "getRunStatus"
                         /\ run'[h].status = ops[1].res
               /\ pc'[h] = "sleeping" => pc[h] = "loop"
               /\ pc'[h] = "cancel" => pc[h] = "sleeping"
               /\ pc'[h] = "dispatch" => pc[h] = "loop"
               /\ pc'[h] = "list" =>
                    pc[h] = "dispatch" /\ run[h].status = "completed"
               /\ pc[h] = "cancel" => pc'[h] = "done"
               /\ pc[h] \in {"list", "reply", "parts", "reset"} =>
                    pc'[h] \in {"reply", "parts", "reset", "done"}
               /\ pc[h] = "done" => FALSE
          /\ (thread_id[h] # None /\ pc'[h] # "done") =>
               thread_id'[h] = thread_id[h]]_vars

\* Handler 1 created the thread of its user, posted, started the run,
\* fetched it at least once, and has just listed the messages and found text.
C23_ListedAfterPolling ==
  /\ pc[1] = "reply"
  /\ calls.h = 1
  /\ calls.ops = << Call("listMessages", thread_id[1], "ok") >>
  /\ elapsed[1] > 0
  /\ run[1].status = "completed"
  /\ thread_id[1] = ThreadId(1)
  /\ Len(threads[ThreadId(1)]) >= 2

\* C24 as stated: the reset of a handler asks the remote to delete no thread
\* but the one the handler ran on, and leaves every entry of user_threads
\* that holds another thread as it is.
C24_TeardownOfOwnConversation ==
  [][\A h \in DOMAIN pc :
       StepFrom(h, "reset") =>
         /\ \A i \in 1..Len(calls'.ops) :
              calls'.ops[i].op = "deleteConversation" =>
                calls'.ops[i].arg = thread_id[h]
         /\ \A u \in DOMAIN user_threads :
              user_threads[u] # thread_id[h] =>
                /\ u \in DOMAIN user_threads'
                /\ user_threads'[u] = user_threads[u]]_vars

\* C25: after every step no entry of user_threads holds a thread the process
\* has asked the remote to delete; a deleteConversation call is for the
\* thread the entry of the handler's user held, comes after the save of the
\* dictionary without that entry, and the id an entry is given is one that no
\* thread had before and that was never handed to deleteConversation.
C25_NoEntryForDeletedThread ==
  [][/\ \A u \in DOMAIN user_threads' :
          user_threads'[u] \notin delete_requests'
     /\ \A h \in DOMAIN pc : \A i \in 1..Len(calls'.ops) :
          (calls'.h = h /\ calls'.ops[i].op = "deleteConversation") =>
            /\ user[h] \in DOMAIN user_threads
            /\ calls'.ops[i].arg = user_threads[user[h]]
            /\ user[h] \notin DOMAIN user_threads'
            /\ i > 1
            /\ calls'.ops[i - 1].op = "save_threads"
     /\ \A u \in DOMAIN user_threads' :
          (u \notin DOMAIN user_threads
             \/ user_threads'[u] # user_threads[u]) =>
            /\ user_threads'[u] \notin DOMAIN threads
            /\ user_threads'[u] \notin delete_requests]_vars

\* Two threads of the user have been handed to deleteConversation, the
\* first of which the remote still holds, and the entry of the user is a
\* third one.
C25_ThirdThreadAfterTwoResets ==
  /\ delete_requests = {ThreadId(1), ThreadId(2)}
  /\ ThreadId(1) \notin deleted
  /\ DOMAIN user_threads = {7}
  /\ user_threads[7] = ThreadId(3)
  /\ thread_id[3] = ThreadId(3)

====
